---- MODULE Spec2Model ----
(***************************************************************************)
(* Model of orttraining/python/training/onnxblock/checkpoint_utils.py:     *)
(* save_checkpoint and load_checkpoint, the Python wrappers around the     *)
(* native bindings _internal_save_checkpoint / _internal_load_checkpoint.  *)
(* One call is followed statement by statement; the calls made to          *)
(* param.SerializeToString and to the native bindings are logged.          *)
(***************************************************************************)
EXTENDS Integers, Sequences, FiniteSets, TLC

\* ---------------------------------------------------------------- bounds
\* longest trainable / non-trainable list passed in
MaxLen == 2
\* longest wrongly sized `parameters` sequence passed in
MaxOuter == 3
\* parameter messages whose SerializeToString succeeds
NumGood == 2
\* parameter messages whose SerializeToString raises
NumBad == 2

\* ---------------------------------------------------------- Python values
None == [kind |-> "None", items |-> <<>>]
NonIterable == [kind |-> "int", items |-> <<>>]
Tuple(s) == [kind |-> "tuple", items |-> s]

NoError == [type |-> "", msg |-> ""]

SeqsUpTo(S, n) == UNION {[1..k -> S] : k \in 0..n}

\* parameter messages: 1..NumGood serialize, -NumBad..-1 raise
Params == (1..NumGood) \cup {-i : i \in 1..NumBad}
CanSerialize(p) == p > 0
\* the byte string param.SerializeToString() returns
SerializeToString(p) == 100 + p
\* the error param.SerializeToString() raises for a message that cannot be encoded
SerializeError(p) == [type |-> "EncodeError", msg |-> ToString(p)]

ParamLists(n) == SeqsUpTo(Params, n)

\* the values a caller passes as `parameters`
ParametersInputs ==
    {None, NonIterable}
    \cup {Tuple(s) : s \in [1..2 -> ParamLists(MaxLen)]}
    \cup {Tuple(s) : s \in {q \in SeqsUpTo(ParamLists(1), MaxOuter) : Len(q) # 2}}

Paths == {"ckpt_a", "ckpt_b"}

\* what a checkpoint holds / what a model holds: (trainable, non_trainable) byte strings
Checkpoints == {Tuple(<<t, nt>>) : t \in SeqsUpTo({101, 102}, 1), nt \in SeqsUpTo({101}, 1)}
Models == {Tuple(<<<<>>, <<>>>>), Tuple(<<<<102>>, <<101>>>>)}

\* line 13
NoParametersError == [type |-> "RuntimeError", msg |-> "No checkpoint parameters provided."]

\* errors of the tuple unpacking at line 17
UnpackError(v) ==
    IF v.kind # "tuple"
    THEN [type |-> "TypeError", msg |-> "cannot unpack non-iterable object"]
    ELSE IF Len(v.items) < 2
         THEN [type |-> "ValueError", msg |-> "not enough values to unpack (expected 2)"]
         ELSE [type |-> "ValueError", msg |-> "too many values to unpack (expected 2)"]

\* the native bindings are opaque: each call either succeeds or raises
NativeSaveErrors ==
    {[type |-> "RuntimeError", msg |-> "native: cannot write checkpoint"],
     [type |-> "OSError", msg |-> "native: permission denied"]}
NativeLoadErrors ==
    {[type |-> "RuntimeError", msg |-> "native: corrupt checkpoint"],
     [type |-> "OSError", msg |-> "native: no such file"]}
NativeSaveOutcomes ==
    {[ok |-> TRUE, err |-> NoError, ret |-> None]}
    \cup {[ok |-> FALSE, err |-> e, ret |-> None] : e \in NativeSaveErrors}
NativeLoadOutcomes ==
    {[ok |-> TRUE, err |-> NoError, ret |-> c] : c \in Checkpoints}
    \cup {[ok |-> FALSE, err |-> e, ret |-> None] : e \in NativeLoadErrors}

\* ------------------------------------------------------------------ state
VARIABLES
    fn,                   \* function being executed: "", "save", "load"
    pc,                   \* position: "idle", source line "s12".."s20", "l27", "returned", "raised"
    parameters,           \* the caller's parameters object (argument of save_checkpoint)
    path_to_checkpoint,   \* argument
    model,                \* the caller's model object (argument of load_checkpoint)
    args0,                \* the arguments as they were when the call was made
    trainable_params,     \* local of save_checkpoint
    non_trainable_params, \* local of save_checkpoint
    comp,                 \* list under construction by the running list comprehension
    loaded,               \* local `parameters` of load_checkpoint
    raised,               \* exception propagating out of the function
    result,               \* value returned by the function
    serCalls,             \* log of SerializeToString calls
    nativeCalls           \* log of native calls

vars == <<fn, pc, parameters, path_to_checkpoint, model, args0, trainable_params,
          non_trainable_params, comp, loaded, raised, result, serCalls, nativeCalls>>

Unset == [kind |-> "unset", items |-> <<>>]

Init ==
    /\ fn = ""
    /\ pc = "idle"
    /\ parameters = Unset
    /\ path_to_checkpoint = ""
    /\ model = Unset
    /\ args0 = [parameters |-> Unset, path |-> "", model |-> Unset]
    /\ trainable_params = <<>>
    /\ non_trainable_params = <<>>
    /\ comp = <<>>
    /\ loaded = Unset
    /\ raised = NoError
    /\ result = Unset
    /\ serCalls = <<>>
    /\ nativeCalls = <<>>

\* ------------------------------------------------------------ save_checkpoint
\* line 9: the caller invokes save_checkpoint(parameters, path_to_checkpoint)
CallSave ==
    /\ pc = "idle"
    /\ \E p \in ParametersInputs, path \in Paths :
        /\ parameters' = p
        /\ path_to_checkpoint' = path
        /\ args0' = [parameters |-> p, path |-> path, model |-> Unset]
    /\ fn' = "save"
    /\ pc' = "s12"
    /\ UNCHANGED <<model, trainable_params, non_trainable_params, comp, loaded,
                   raised, result, serCalls, nativeCalls>>

\* mutant: truthiness test `if not parameters` instead of `is None`
SaveCheckNone_Falsy ==
    /\ pc = "s12"
    /\ IF parameters = None \/ (parameters.kind = "tuple" /\ parameters.items = <<>>)
       THEN /\ raised' = NoParametersError
            /\ pc' = "raised"
       ELSE /\ pc' = "s17"
            /\ UNCHANGED raised
    /\ UNCHANGED <<fn, parameters, path_to_checkpoint, model, args0, trainable_params,
                   non_trainable_params, comp, loaded, result, serCalls, nativeCalls>>

\* mutant: the guard is missing
SaveCheckNone_NoGuard ==
    /\ pc = "s12"
    /\ pc' = "s17"
    /\ UNCHANGED <<fn, parameters, path_to_checkpoint, model, args0, trainable_params,
                   non_trainable_params, comp, loaded, raised, result, serCalls, nativeCalls>>

\* mutant: the guard also rejects a pair of two empty lists
SaveCheckNone_RejectEmpty ==
    /\ pc = "s12"
    /\ IF parameters = None \/ parameters = Tuple(<<<<>>, <<>>>>)
       THEN /\ raised' = NoParametersError
            /\ pc' = "raised"
       ELSE /\ pc' = "s17"
            /\ UNCHANGED raised
    /\ UNCHANGED <<fn, parameters, path_to_checkpoint, model, args0, trainable_params,
                   non_trainable_params, comp, loaded, result, serCalls, nativeCalls>>

\* lines 12-13: if parameters is None: raise RuntimeError(...)
SaveCheckNone ==
    /\ pc = "s12"
    /\ IF parameters = None
       THEN /\ raised' = NoParametersError
            /\ pc' = "raised"
       ELSE /\ pc' = "s17"
            /\ UNCHANGED raised
    /\ UNCHANGED <<fn, parameters, path_to_checkpoint, model, args0, trainable_params,
                   non_trainable_params, comp, loaded, result, serCalls, nativeCalls>>

\* line 17: trainable_params, non_trainable_params = parameters
SaveUnpack ==
    /\ pc = "s17"
    /\ IF parameters.kind = "tuple" /\ Len(parameters.items) = 2
       THEN /\ trainable_params' = parameters.items[1]
            /\ non_trainable_params' = parameters.items[2]
            /\ pc' = "s18"
            /\ UNCHANGED raised
       ELSE /\ raised' = UnpackError(parameters)
            /\ pc' = "raised"
            /\ UNCHANGED <<trainable_params, non_trainable_params>>
    /\ UNCHANGED <<fn, parameters, path_to_checkpoint, model, args0, comp, loaded,
                   result, serCalls, nativeCalls>>

\* mutant: an element that fails to serialize is skipped instead of raising
SerializeTrainable_Skip ==
    /\ pc = "s18"
    /\ IF Len(serCalls) < Len(trainable_params)
       THEN LET p == trainable_params[Len(serCalls) + 1] IN
            /\ serCalls' = Append(serCalls, [list |-> "trainable", param |-> p])
            /\ comp' = IF CanSerialize(p) THEN Append(comp, SerializeToString(p)) ELSE comp
            /\ UNCHANGED <<pc, trainable_params>>
       ELSE /\ trainable_params' = comp
            /\ comp' = <<>>
            /\ pc' = "s19"
            /\ UNCHANGED serCalls
    /\ UNCHANGED <<fn, parameters, path_to_checkpoint, model, args0, raised,
                   non_trainable_params, loaded, result, nativeCalls>>

\* mutant: the serialized bytes are written back into the caller's list
SerializeTrainable_InPlace ==
    /\ pc = "s18"
    /\ IF Len(comp) < Len(trainable_params)
       THEN LET i == Len(comp) + 1
                p == trainable_params[i] IN
            /\ serCalls' = Append(serCalls, [list |-> "trainable", param |-> p])
            /\ IF CanSerialize(p)
               THEN /\ comp' = Append(comp, SerializeToString(p))
                    /\ parameters' = [parameters EXCEPT !.items[1][i] = SerializeToString(p)]
                    /\ UNCHANGED <<pc, raised>>
               ELSE /\ raised' = SerializeError(p)
                    /\ pc' = "raised"
                    /\ UNCHANGED <<comp, parameters>>
            /\ UNCHANGED trainable_params
       ELSE /\ trainable_params' = comp
            /\ comp' = <<>>
            /\ pc' = "s19"
            /\ UNCHANGED <<raised, serCalls, parameters>>
    /\ UNCHANGED <<fn, path_to_checkpoint, model, args0,
                   non_trainable_params, loaded, result, nativeCalls>>

\* line 18: trainable_params = [param.SerializeToString() for param in trainable_params]
\* one element per step; the name is rebound when the comprehension has finished
SerializeTrainable ==
    /\ pc = "s18"
    /\ IF Len(comp) < Len(trainable_params)
       THEN LET p == trainable_params[Len(comp) + 1] IN
            /\ serCalls' = Append(serCalls, [list |-> "trainable", param |-> p])
            /\ IF CanSerialize(p)
               THEN /\ comp' = Append(comp, SerializeToString(p))
                    /\ UNCHANGED <<pc, raised>>
               ELSE /\ raised' = SerializeError(p)
                    /\ pc' = "raised"
                    /\ UNCHANGED comp
            /\ UNCHANGED trainable_params
       ELSE /\ trainable_params' = comp
            /\ comp' = <<>>
            /\ pc' = "s19"
            /\ UNCHANGED <<raised, serCalls>>
    /\ UNCHANGED <<fn, parameters, path_to_checkpoint, model, args0,
                   non_trainable_params, loaded, result, nativeCalls>>

\* line 19: non_trainable_params = [param.SerializeToString() for param in non_trainable_params]
SerializeNonTrainable ==
    /\ pc = "s19"
    /\ IF Len(comp) < Len(non_trainable_params)
       THEN LET p == non_trainable_params[Len(comp) + 1] IN
            /\ serCalls' = Append(serCalls, [list |-> "non_trainable", param |-> p])
            /\ IF CanSerialize(p)
               THEN /\ comp' = Append(comp, SerializeToString(p))
                    /\ UNCHANGED <<pc, raised>>
               ELSE /\ raised' = SerializeError(p)
                    /\ pc' = "raised"
                    /\ UNCHANGED comp
            /\ UNCHANGED non_trainable_params
       ELSE /\ non_trainable_params' = comp
            /\ comp' = <<>>
            /\ pc' = "s20"
            /\ UNCHANGED <<raised, serCalls>>
    /\ UNCHANGED <<fn, parameters, path_to_checkpoint, model, args0,
                   trainable_params, loaded, result, nativeCalls>>

\* the log entry of one native call
NativeCall(f, n, t, nt, path, o) ==
    [fn |-> f, nargs |-> n, trainable |-> t, non_trainable |-> nt, path |-> path,
     ok |-> o.ok, err |-> o.err, ret |-> o.ret]

\* mutant: the two lists are passed in the wrong order
SaveNativeCall_Swapped ==
    /\ pc = "s20"
    /\ \E o \in NativeSaveOutcomes :
        /\ nativeCalls' = Append(nativeCalls,
              NativeCall("save", 3, non_trainable_params, trainable_params,
                         path_to_checkpoint, o))
        /\ IF o.ok
           THEN /\ result' = None
                /\ pc' = "returned"
                /\ UNCHANGED raised
           ELSE /\ raised' = o.err
                /\ pc' = "raised"
                /\ UNCHANGED result
    /\ UNCHANGED <<fn, parameters, path_to_checkpoint, model, args0, trainable_params,
                   non_trainable_params, comp, loaded, serCalls>>

\* mutant: a native failure is caught and re-raised as another error
SaveNativeCall_Wrapped ==
    /\ pc = "s20"
    /\ \E o \in NativeSaveOutcomes :
        /\ nativeCalls' = Append(nativeCalls,
              NativeCall("save", 3, trainable_params, non_trainable_params,
                         path_to_checkpoint, o))
        /\ IF o.ok
           THEN /\ result' = None
                /\ pc' = "returned"
                /\ UNCHANGED raised
           ELSE /\ raised' = [type |-> "RuntimeError", msg |-> "Failed to save checkpoint."]
                /\ pc' = "raised"
                /\ UNCHANGED result
    /\ UNCHANGED <<fn, parameters, path_to_checkpoint, model, args0, trainable_params,
                   non_trainable_params, comp, loaded, serCalls>>

\* line 20: _internal_save_checkpoint(trainable_params, non_trainable_params, path_to_checkpoint)
\* followed by the implicit `return None`; an exception of the native call propagates
SaveNativeCall ==
    /\ pc = "s20"
    /\ \E o \in NativeSaveOutcomes :
        /\ nativeCalls' = Append(nativeCalls,
              NativeCall("save", 3, trainable_params, non_trainable_params,
                         path_to_checkpoint, o))
        /\ IF o.ok
           THEN /\ result' = None
                /\ pc' = "returned"
                /\ UNCHANGED raised
           ELSE /\ raised' = o.err
                /\ pc' = "raised"
                /\ UNCHANGED result
    /\ UNCHANGED <<fn, parameters, path_to_checkpoint, model, args0, trainable_params,
                   non_trainable_params, comp, loaded, serCalls>>

\* ------------------------------------------------------------ load_checkpoint
\* line 23: the caller invokes load_checkpoint(model, path_to_checkpoint)
CallLoad ==
    /\ pc = "idle"
    /\ \E m \in Models, path \in Paths :
        /\ model' = m
        /\ path_to_checkpoint' = path
        /\ args0' = [parameters |-> Unset, path |-> path, model |-> m]
    /\ fn' = "load"
    /\ pc' = "l27"
    /\ UNCHANGED <<parameters, trainable_params, non_trainable_params, comp, loaded,
                   raised, result, serCalls, nativeCalls>>

\* mutant: the loaded parameters are applied to the model
LoadNativeCall_Apply ==
    /\ pc = "l27"
    /\ \E o \in NativeLoadOutcomes :
        /\ nativeCalls' = Append(nativeCalls,
              NativeCall("load", 1, <<>>, <<>>, path_to_checkpoint, o))
        /\ IF o.ok
           THEN /\ loaded' = o.ret
                /\ model' = o.ret
                /\ result' = None
                /\ pc' = "returned"
                /\ UNCHANGED raised
           ELSE /\ raised' = o.err
                /\ pc' = "raised"
                /\ UNCHANGED <<loaded, result, model>>
    /\ UNCHANGED <<fn, parameters, path_to_checkpoint, args0, trainable_params,
                   non_trainable_params, comp, serCalls>>

\* mutant: a failed load is retried once
LoadNativeCall_Retry ==
    /\ pc = "l27"
    /\ \E o \in NativeLoadOutcomes :
        /\ nativeCalls' = Append(nativeCalls,
              NativeCall("load", 1, <<>>, <<>>, path_to_checkpoint, o))
        /\ IF o.ok
           THEN /\ loaded' = o.ret
                /\ result' = None
                /\ pc' = "returned"
                /\ UNCHANGED raised
           ELSE IF nativeCalls = <<>>
                THEN UNCHANGED <<pc, raised, loaded, result>>
                ELSE /\ raised' = o.err
                     /\ pc' = "raised"
                     /\ UNCHANGED <<loaded, result>>
    /\ UNCHANGED <<fn, parameters, path_to_checkpoint, model, args0, trainable_params,
                   non_trainable_params, comp, serCalls>>

\* line 27: parameters = _internal_load_checkpoint(path_to_checkpoint)
\* followed by the implicit `return None`; an exception of the native call propagates
LoadNativeCall ==
    /\ pc = "l27"
    /\ \E o \in NativeLoadOutcomes :
        /\ nativeCalls' = Append(nativeCalls,
              NativeCall("load", 1, <<>>, <<>>, path_to_checkpoint, o))
        /\ IF o.ok
           THEN /\ loaded' = o.ret
                /\ result' = None
                /\ pc' = "returned"
                /\ UNCHANGED raised
           ELSE /\ raised' = o.err
                /\ pc' = "raised"
                /\ UNCHANGED <<loaded, result>>
    /\ UNCHANGED <<fn, parameters, path_to_checkpoint, model, args0, trainable_params,
                   non_trainable_params, comp, serCalls>>

Next ==
    \/ CallSave
    \/ SaveCheckNone
    \/ SaveUnpack
    \/ SerializeTrainable
    \/ SerializeNonTrainable
    \/ SaveNativeCall
    \/ CallLoad
    \/ LoadNativeCall

Spec == Init /\ [][Next]_vars

\* ------------------------------------------------------------ properties
Terminated == pc \in {"returned", "raised"}
IsPair(v) == v.kind = "tuple" /\ Len(v.items) = 2
AllSerialize(s) == \A i \in 1..Len(s) : CanSerialize(s[i])
SerializedList(s) == [i \in 1..Len(s) |-> SerializeToString(s[i])]
SavingPair == fn = "save" /\ IsPair(args0.parameters)
SavingGoodPair ==
    /\ SavingPair
    /\ AllSerialize(args0.parameters.items[1])
    /\ AllSerialize(args0.parameters.items[2])
\* the SerializeToString calls a complete run over both lists makes, in order
ExpectedSerCalls(t, nt) ==
    [i \in 1..Len(t) |-> [list |-> "trainable", param |-> t[i]]]
    \o [i \in 1..Len(nt) |-> [list |-> "non_trainable", param |-> nt[i]]]
IsPrefix(a, b) == Len(a) <= Len(b) /\ \A i \in 1..Len(a) : a[i] = b[i]
FirstBad(s) == CHOOSE i \in 1..Len(s) : ~CanSerialize(s[i]) /\ \A j \in 1..(i - 1) : CanSerialize(s[j])

\* C1: save_checkpoint(None, path) never returns normally; when it has failed the
\* error is the RuntimeError of line 13, and no SerializeToString call and no
\* native call has been made at any point of the execution.
C1_NoneRaisesBeforeNative ==
    (fn = "save" /\ args0.parameters = None) =>
        /\ pc \in {"s12", "raised"}
        /\ serCalls = <<>>
        /\ nativeCalls = <<>>
        /\ (pc = "raised" => raised = NoParametersError)
C1_Witness ==
    fn = "save" /\ args0.parameters = None /\ pc = "raised" /\ path_to_checkpoint = "ckpt_b"

\* C2: for a pair of lists whose elements all serialize, a finished save_checkpoint
\* has made exactly one native call, with the serialized trainable list first, the
\* serialized non-trainable list second (same order, same count) and the path
\* third; when the native call succeeds save_checkpoint returns None.
C2_OneNativeCallWithSerializedLists ==
    SavingGoodPair =>
        /\ Len(nativeCalls) <= 1
        /\ (Terminated =>
              /\ Len(nativeCalls) = 1
              /\ nativeCalls[1].fn = "save"
              /\ nativeCalls[1].nargs = 3
              /\ nativeCalls[1].trainable = SerializedList(args0.parameters.items[1])
              /\ nativeCalls[1].non_trainable = SerializedList(args0.parameters.items[2])
              /\ nativeCalls[1].path = args0.path
              /\ (nativeCalls[1].ok => pc = "returned" /\ result = None))
C2_Witness ==
    /\ SavingGoodPair
    /\ pc = "returned"
    /\ args0.parameters.items = <<<<2, 1>>, <<1>>>>
    /\ nativeCalls[1].trainable = <<102, 101>>

\* C3: when the native save fails, save_checkpoint has failed with exactly the
\* error the native call raised, and that call is the only native call.
C3_NativeSaveErrorPropagates ==
    (fn = "save" /\ nativeCalls # <<>> /\ ~nativeCalls[1].ok) =>
        /\ pc = "raised"
        /\ raised = nativeCalls[1].err
        /\ Len(nativeCalls) = 1
C3_Witness ==
    /\ fn = "save"
    /\ Len(nativeCalls) = 1
    /\ ~nativeCalls[1].ok
    /\ raised.type = "OSError"

\* C4: after a successful load_checkpoint the model holds the parameters the
\* native load returned, or they are returned to the caller.
C4_LoadAppliesCheckpoint ==
    (fn = "load" /\ pc = "returned") =>
        (model = nativeCalls[1].ret \/ result = nativeCalls[1].ret)

\* C5: when the native load fails, load_checkpoint has failed with exactly the
\* error the native call raised, the native call was made once, with the path as
\* its only argument, and the model is as it was passed in.
C5_NativeLoadErrorPropagates ==
    (fn = "load" /\ nativeCalls # <<>> /\ ~nativeCalls[1].ok) =>
        /\ pc = "raised"
        /\ raised = nativeCalls[1].err
        /\ Len(nativeCalls) = 1
        /\ nativeCalls[1].fn = "load"
        /\ nativeCalls[1].nargs = 1
        /\ nativeCalls[1].path = args0.path
        /\ model = args0.model
C5_Witness ==
    /\ fn = "load"
    /\ Len(nativeCalls) = 1
    /\ ~nativeCalls[1].ok
    /\ pc = "raised"
    /\ model = Tuple(<<<<102>>, <<101>>>>)

C7_OnlyNoneIsRejected ==
    SavingGoodPair =>
        /\ raised # NoParametersError
        /\ (pc = "raised" => Len(nativeCalls) = 1 /\ ~nativeCalls[1].ok)
        /\ (Terminated => Len(nativeCalls) = 1)
        /\ (Terminated /\ args0.parameters = Tuple(<<<<>>, <<>>>>) =>
              nativeCalls[1].trainable = <<>> /\ nativeCalls[1].non_trainable = <<>>)
C7_Witness ==
    /\ fn = "save"
    /\ args0.parameters = Tuple(<<<<>>, <<>>>>)
    /\ pc = "returned"
    /\ Len(nativeCalls) = 1
    /\ nativeCalls[1].trainable = <<>>
    /\ nativeCalls[1].non_trainable = <<>>

\* C8: the SerializeToString calls made so far are a prefix of: every trainable
\* element in order, then every non-trainable element in order; the native call is
\* made only after all of them; if an element fails to serialize, save_checkpoint
\* fails with that element's error and the native call is never made.
C8_SerializeBeforeNative ==
    SavingPair =>
        LET t == args0.parameters.items[1]
            nt == args0.parameters.items[2]
            all == t \o nt
        IN /\ IsPrefix(serCalls, ExpectedSerCalls(t, nt))
           /\ (nativeCalls # <<>> => serCalls = ExpectedSerCalls(t, nt) /\ AllSerialize(all))
           /\ (~AllSerialize(all) =>
                 /\ nativeCalls = <<>>
                 /\ pc # "returned"
                 /\ (pc = "raised" =>
                       /\ raised = SerializeError(all[FirstBad(all)])
                       /\ Len(serCalls) = FirstBad(all)))
C8_Witness ==
    /\ SavingPair
    /\ args0.parameters.items = <<<<1, 2>>, <<-2, -1>>>>
    /\ pc = "raised"
    /\ raised = SerializeError(-2)
    /\ Len(serCalls) = 3

\* C9: when parameters is not None and not a sequence of exactly two elements,
\* save_checkpoint never gets past the unpacking of line 17: it fails there with
\* an error other than the line-13 RuntimeError, with no SerializeToString call
\* and no native call made.
C9_WrongArityFailsAtUnpack ==
    (fn = "save" /\ args0.parameters # None /\ ~IsPair(args0.parameters)) =>
        /\ pc \in {"s12", "s17", "raised"}
        /\ serCalls = <<>>
        /\ nativeCalls = <<>>
        /\ (pc = "raised" =>
              /\ raised = UnpackError(args0.parameters)
              /\ raised # NoParametersError
              /\ raised.type \in {"ValueError", "TypeError"})
C9_Witness ==
    /\ fn = "save"
    /\ args0.parameters.kind = "tuple"
    /\ Len(args0.parameters.items) = 3
    /\ pc = "raised"
    /\ raised.type = "ValueError"

\* C10: at every point of a save_checkpoint call, and after it, the caller's
\* parameters object (the pair, both lists, their elements and order) and the path
\* are as they were passed in.
C10_InputsUnchanged ==
    fn = "save" =>
        /\ parameters = args0.parameters
        /\ path_to_checkpoint = args0.path
C10_Witness ==
    /\ SavingGoodPair
    /\ pc = "returned"
    /\ trainable_params = <<101, 102>>
    /\ parameters.items[1] = <<1, 2>>
    /\ non_trainable_params = <<102>>

====
